---- MODULE Spec2Model ----
(***************************************************************************)
(* Model of src/codegen/general.rs of gir: the declaration emitters, the   *)
(* annotation generators and the text utilities.                           *)
(*                                                                         *)
(* Text.  A line is a sequence of string fragments: the literal pieces of  *)
(* the format string and the interpolated values, in order.  A line is     *)
(* what one writeln! hands to the sink; the blank line of writeln!(w) is   *)
(* the empty sequence.  A Rust String handled character by character       *)
(* (escape_string) is a sequence of one-character strings.                 *)
(*                                                                         *)
(* Sink.  `w: &mut Write` is an input of every emitter.  A sink accepts a  *)
(* line or fails the write with its I/O error; the sink drawn for a call   *)
(* fails its failAt-th write (never, when failAt = 0) and would accept     *)
(* every other write, so an emitter that kept writing after an error would *)
(* show in the accepted text and in the count of attempts.                 *)
(***************************************************************************)
EXTENDS Integers, Sequences, FiniteSets, TLC

VARIABLES pc, op, args, w, ret

vars == <<pc, op, args, w, ret>>

(***************************************************************************)
(* Bounds of the model.                                                    *)
(***************************************************************************)
MaxParents == 3
MaxImports == 2
MaxFunctions == 2
MaxDerives == 2
MaxLen == 4
MaxIndent == 1
MaxFailAt == 12

SeqsUpTo(S, n) == UNION {[1..k -> S] : k \in 0..n}

(***************************************************************************)
(* Option<T>.                                                              *)
(***************************************************************************)
None == [tag |-> "None"]
Some(x) == [tag |-> "Some", val |-> x]
IsSome(o) == o.tag = "Some"

(***************************************************************************)
(* Versions and the environment.  Version is totally ordered; the numbers  *)
(* stand for releases in increasing order.                                 *)
(***************************************************************************)
Versions == {1, 2}
OptVersions == {None} \cup {Some(v) : v \in Versions}
MinCfgVersions == {1, 2}
Envs == [min_cfg_version : MinCfgVersions]

\* Version::to_cfg: the feature condition naming the version.
to_cfg(v) == "feature = \"v" \o ToString(v) \o "\""

\* Env::is_too_low_version
is_too_low_version(env, version) ==
    IsSome(version) /\ version.val <= env.min_cfg_version

\* Env::main_sys_crate_name
main_sys_crate_name == "ffi"

\* writer::primitives::tabs
RECURSIVE tabs(_)
tabs(indent) == IF indent = 0 THEN <<>> ELSE <<"\t">> \o tabs(indent - 1)

\* let comment = if commented { "//" } else { "" };
comment_prefix(commented) == IF commented THEN <<"//">> ELSE <<>>

(***************************************************************************)
(* The sink and try!(writeln!(w, ...)).                                    *)
(***************************************************************************)
IoErrors == {"EIO", "ENOSPC"}
Sinks == {[failAt |-> 0, err |-> "none"]}
         \cup {[failAt |-> k, err |-> e] : k \in 1..MaxFailAt, e \in IoErrors}

NewSink(s) ==
    [accepted |-> <<>>, attempts |-> 0, failAt |-> s.failAt, err |-> s.err,
     res |-> "Ok"]

\* One write of one line: the sink takes the line whole or fails the write.
writeln(sink, line) ==
    LET n == sink.attempts + 1 IN
    IF n = sink.failAt
    THEN [sink EXCEPT !.attempts = n, !.res = sink.err]
    ELSE [sink EXCEPT !.attempts = n, !.accepted = Append(@, line)]

\* A writeln whose error is dropped instead of returned: the emitter goes on.
try_writeln_ignoring(sink, line) ==
    LET n == sink.attempts + 1 IN
    IF n = sink.failAt
    THEN [sink EXCEPT !.attempts = n,
                      !.res = IF sink.res = "Ok" THEN sink.err ELSE sink.res]
    ELSE [sink EXCEPT !.attempts = n, !.accepted = Append(@, line)]

\* try!(writeln!(w, ...)): an Err returns from the emitter at once, so no
\* statement after it runs.
try_writeln(sink, line) ==
    IF sink.res # "Ok" THEN sink ELSE writeln(sink, line)

\* The statements of an emitter in program order, each under try!.
RECURSIVE try_all(_, _)
try_all(sink, lines) ==
    IF lines = <<>> THEN sink
    ELSE try_all(try_writeln(sink, Head(lines)), Tail(lines))

(***************************************************************************)
(* 4.1 Annotation generator.                                               *)
(***************************************************************************)
DOX == "feature = \"dox\""

\* Guards a version equal to the minimum as well.
version_condition_string_ge(env, version, commented, indent) ==
    IF IsSome(version) /\ version.val >= env.min_cfg_version
    THEN Some(tabs(indent) \o comment_prefix(commented)
              \o <<"#[cfg(any(", to_cfg(version.val), ", ", DOX, "))]">>)
    ELSE None

version_condition_string(env, version, commented, indent) ==
    IF IsSome(version) /\ version.val > env.min_cfg_version
    THEN Some(tabs(indent) \o comment_prefix(commented)
              \o <<"#[cfg(any(", to_cfg(version.val), ", ", DOX, "))]">>)
    ELSE None

\* The lines version_condition writes.
version_condition_lines(env, version, commented, indent) ==
    LET s == version_condition_string(env, version, commented, indent) IN
    IF IsSome(s) THEN <<s.val>> ELSE <<>>

\* The condition written without its not(..).
not_version_condition_lines_positive(version, commented, indent) ==
    IF IsSome(version)
    THEN <<tabs(indent) \o comment_prefix(commented)
           \o <<"#[cfg(any(", to_cfg(version.val), ", ", DOX, "))]">> >>
    ELSE <<>>

\* The lines not_version_condition writes (it takes no env).
not_version_condition_lines(version, commented, indent) ==
    IF IsSome(version)
    THEN <<tabs(indent) \o comment_prefix(commented)
           \o <<"#[cfg(any(", "not(", to_cfg(version.val), ")", ", ", DOX, "))]">> >>
    ELSE <<>>

cfg_deprecated_string(deprecated, env, commented, indent) ==
    IF is_too_low_version(env, deprecated)
    THEN Some(tabs(indent) \o comment_prefix(commented) \o <<"#[deprecated]">>)
    ELSE IF IsSome(deprecated)
    THEN Some(tabs(indent) \o comment_prefix(commented)
              \o <<"#[cfg_attr(", to_cfg(deprecated.val), ", deprecated)]">>)
    ELSE None

cfg_deprecated_lines(env, deprecated, commented, indent) ==
    LET s == cfg_deprecated_string(deprecated, env, commented, indent) IN
    IF IsSome(s) THEN <<s.val>> ELSE <<>>

(***************************************************************************)
(* 4.6 Text utility.                                                       *)
(***************************************************************************)
QUOTE == "\""
BACKSLASH == "\\"
Chars == {QUOTE, BACKSLASH, "'", "a"}
Strings == SeqsUpTo(Chars, MaxLen)

\* Escapes the double quote but lets the backslash through.
RECURSIVE escape_string_quote_only(_)
escape_string_quote_only(s) ==
    IF s = <<>> THEN <<>>
    ELSE (IF Head(s) = QUOTE THEN <<BACKSLASH, Head(s)>> ELSE <<Head(s)>>)
         \o escape_string_quote_only(Tail(s))

RECURSIVE escape_string(_)
escape_string(s) ==
    IF s = <<>> THEN <<>>
    ELSE (IF Head(s) \in {QUOTE, BACKSLASH}
          THEN <<BACKSLASH, Head(s)>>
          ELSE <<Head(s)>>)
         \o escape_string(Tail(s))

(***************************************************************************)
(* 4.4 Derive emitter.                                                     *)
(***************************************************************************)
\* names.join(sep): the names with the separator between neighbours.
RECURSIVE join(_, _)
join(names, sep) ==
    IF names = <<>> THEN <<>>
    ELSE IF Len(names) = 1 THEN <<names[1]>>
    ELSE <<names[1], sep>> \o join(Tail(names), sep)

derive_line(derive, indent) ==
    tabs(indent)
    \o (IF IsSome(derive.cfg_condition)
        THEN <<"#[cfg_attr(", derive.cfg_condition.val, ", derive(">>
             \o join(derive.names, ", ") \o <<"))]">>
        ELSE <<"#[derive(">> \o join(derive.names, ", ") \o <<")]">>)

\* The lines derives writes: one per Derive, in order.
derives_lines(derives, indent) ==
    [i \in 1..Len(derives) |-> derive_line(derives[i], indent)]

(***************************************************************************)
(* 4.2 Ancestor resolver and 4.3 the object/interface declarator.          *)
(***************************************************************************)
MAIN == 0

\* env.namespaces[ns_id].crate_name
crate_name(ns_id) == IF ns_id = MAIN THEN "gtk" ELSE "gio"

\* env.library.type_(type_id): the kind of the type an ancestor names.
library_type(type_id) ==
    IF type_id.id = 1 THEN "Class" ELSE "Interface"

\* GStatus::ignored
ignored(status) == status = "Ignore"

format_parent_name(p) ==
    IF p.type_id.ns_id = MAIN
    THEN p.name
    ELSE crate_name(p.type_id.ns_id) \o "::" \o p.name

\* parents.iter().filter(|p| !p.status.ignored()).cloned().collect()
surviving(parents) == SelectSeq(parents, LAMBDA p : ~ignored(p.status))

\* .map(|p| format_parent_name(env, p)).collect()
names_of(parents) ==
    [i \in 1..Len(parents) |-> format_parent_name(parents[i])]

\* Every ancestor counted as an interface, whatever its kind.
interfaces_of_any_kind(parents) ==
    names_of(SelectSeq(parents, LAMBDA p : ~ignored(p.status)))

\* Type::Interface { .. } if !p.status.ignored() => true, _ => false
interfaces_of(parents) ==
    names_of(SelectSeq(parents,
                       LAMBDA p : /\ library_type(p.type_id) = "Interface"
                                  /\ ~ignored(p.status)))

\* Type::Class { .. } if !p.status.ignored() => true, _ => false
classes_of(parents) ==
    names_of(SelectSeq(parents,
                       LAMBDA p : /\ library_type(p.type_id) = "Class"
                                  /\ ~ignored(p.status)))

\* The comma between the two clauses left out.
parents_string_no_comma(parents, interfaces) ==
    (IF parents # <<>> THEN <<" @extends ">> \o join(parents, ", ") ELSE <<>>)
    \o (IF interfaces # <<>>
        THEN <<" @implements ">> \o join(interfaces, ", ")
        ELSE <<>>)

\* let mut parents_string = String::new(); ... of a concrete owner
parents_string(parents, interfaces) ==
    (IF parents # <<>> THEN <<" @extends ">> \o join(parents, ", ") ELSE <<>>)
    \o (IF interfaces # <<>>
        THEN (IF parents # <<>> THEN <<",">> ELSE <<>>)
             \o <<" @implements ">> \o join(interfaces, ", ")
        ELSE <<>>)

\* The text between ">)" and ";" of the struct line.
parent_clause(is_interface, all_parents) ==
    LET parents == surviving(all_parents) IN
    IF parents = <<>> THEN <<>>
    ELSE IF is_interface THEN <<" @requires ">> \o join(names_of(parents), ", ")
    ELSE parents_string(classes_of(parents), interfaces_of(parents))

define_object_type_lines(type_name, glib_name, glib_class_name, rust_class_name, glib_func_name, is_interface, parents) ==
    LET sys_crate_name == main_sys_crate_name
        class_name == IF IsSome(glib_class_name)
                      THEN ", " \o sys_crate_name \o "::" \o glib_class_name.val
                      ELSE ""
        rust_class == IF IsSome(rust_class_name)
                      THEN ", " \o rust_class_name.val
                      ELSE ""
        kind_name == IF is_interface THEN "Interface" ELSE "Object"
    IN << <<>>,
          <<"glib_wrapper! {">>,
          <<"\tpub struct ", type_name, "(", kind_name, "<", sys_crate_name,
            "::", glib_name, class_name, rust_class, ">)">>
            \o parent_clause(is_interface, parents) \o <<";">>,
          <<>>,
          <<"\tmatch fn {">>,
          <<"\t\t", "get_type", " => || ", sys_crate_name, "::",
            glib_func_name, "(),">>,
          <<"\t}">>,
          <<"}">> >>

(***************************************************************************)
(* 4.3 The boxed, auto-boxed and shared declarators.                       *)
(***************************************************************************)
\* The get_type binding written whether or not a function is given.
get_type_binding_always(get_type_fn) ==
    << <<"\t\t", "get_type", " => || ", main_sys_crate_name, "::",
         IF IsSome(get_type_fn) THEN get_type_fn.val ELSE "", "(),">> >>

\* if let Some(ref get_type_fn) = *get_type_fn { ... }
get_type_binding(get_type_fn) ==
    IF IsSome(get_type_fn)
    THEN << <<"\t\t", "get_type", " => || ", main_sys_crate_name, "::",
              get_type_fn.val, "(),">> >>
    ELSE <<>>

define_boxed_type_lines(type_name, glib_name, copy_fn, free_fn, get_type_fn, derive) ==
    LET sys_crate_name == main_sys_crate_name IN
    << <<>>, <<"glib_wrapper! {">> >>
    \o derives_lines(derive, 1)
    \o << <<"\tpub struct ", type_name, "(Boxed<", sys_crate_name, "::",
            glib_name, ">);">>,
          <<>>,
          <<"\tmatch fn {">>,
          <<"\t\t", "copy", " => |ptr| ", sys_crate_name, "::", copy_fn,
            "(mut_override(ptr)),">>,
          <<"\t\t", "free", " => |ptr| ", sys_crate_name, "::", free_fn,
            "(ptr),">> >>
    \o get_type_binding(get_type_fn)
    \o << <<"\t}">>, <<"}">> >>

define_auto_boxed_type_lines(type_name, glib_name, get_type_fn, derive) ==
    LET sys_crate_name == main_sys_crate_name IN
    << <<>>, <<"glib_wrapper! {">> >>
    \o derives_lines(derive, 1)
    \o << <<"\tpub struct ", type_name, "(Boxed<", sys_crate_name, "::",
            glib_name, ">);">>,
          <<>>,
          <<"\tmatch fn {">>,
          <<"\t\t", "copy", " => |ptr| gobject_sys::g_boxed_copy(",
            sys_crate_name, "::", get_type_fn, "(), ptr as *mut _) as *mut ",
            sys_crate_name, "::", glib_name, ",">>,
          <<"\t\t", "free", " => |ptr| gobject_sys::g_boxed_free(",
            sys_crate_name, "::", get_type_fn, "(), ptr as *mut _),">>,
          <<"\t\t", "get_type", " => || ", sys_crate_name, "::", get_type_fn,
            "(),">>,
          <<"\t}">>,
          <<"}">> >>

define_shared_type_lines(type_name, glib_name, ref_fn, unref_fn, get_type_fn, derive) ==
    LET sys_crate_name == main_sys_crate_name IN
    << <<>>, <<"glib_wrapper! {">> >>
    \o derives_lines(derive, 1)
    \o << <<"\tpub struct ", type_name, "(Shared<", sys_crate_name, "::",
            glib_name, ">);">>,
          <<>>,
          <<"\tmatch fn {">>,
          <<"\t\t", "ref", " => |ptr| ", sys_crate_name, "::", ref_fn,
            "(ptr),">>,
          <<"\t\t", "unref", " => |ptr| ", sys_crate_name, "::", unref_fn,
            "(ptr),">> >>
    \o get_type_binding(get_type_fn)
    \o << <<"\t}">>, <<"}">> >>

(***************************************************************************)
(* 4.4 Import emitter.  imports is the sequence imports.iter() yields.     *)
(***************************************************************************)
\* constraints.iter().map(|c| format!("feature = \"{}\"", c))
feature_conditions(constraints) ==
    [i \in 1..Len(constraints) |-> "feature = \"" \o constraints[i] \o "\""]

feature_guard_lines(constraints) ==
    IF Len(constraints) = 1
    THEN << <<"#[cfg(", "feature = \"" \o constraints[1] \o "\"", ")]">> >>
    ELSE IF constraints # <<>>
    THEN << <<"#[cfg(any(">> \o join(feature_conditions(constraints), ", ")
            \o <<"))]">> >>
    ELSE <<>>

\* The version guard written after the use line it gates.
import_lines_guard_last(env, entry) ==
    feature_guard_lines(entry.constraints)
    \o << <<"use ", entry.name, ";">> >>
    \o version_condition_lines(env, entry.version, FALSE, 0)

\* The body of the for loop, for one entry.
import_lines(env, entry) ==
    feature_guard_lines(entry.constraints)
    \o version_condition_lines(env, entry.version, FALSE, 0)
    \o << <<"use ", entry.name, ";">> >>

RECURSIVE imports_lines(_, _)
imports_lines(env, imports) ==
    IF imports = <<>> THEN <<>>
    ELSE import_lines(env, Head(imports)) \o imports_lines(env, Tail(imports))

uses_lines(env, imports) == << <<>> >> \o imports_lines(env, imports)

(***************************************************************************)
(* 4.5 Default-constructor shim.                                           *)
(***************************************************************************)
\* !f.visibility.hidden() && f.name == "new"
\*     && f.parameters.rust_parameters.is_empty()
is_default_new(f) ==
    /\ ~f.hidden
    /\ f.name = "new"
    /\ f.rust_parameters = 0

\* The last match instead of the first.
RECURSIVE find_default_new_last(_)
find_default_new_last(functions) ==
    IF functions = <<>> THEN None
    ELSE IF is_default_new(functions[Len(functions)])
    THEN Some(functions[Len(functions)])
    ELSE find_default_new_last(SubSeq(functions, 1, Len(functions) - 1))

\* functions.iter().find(..): the first match in list order, or None.
RECURSIVE find_default_new(_)
find_default_new(functions) ==
    IF functions = <<>> THEN None
    ELSE IF is_default_new(Head(functions)) THEN Some(Head(functions))
    ELSE find_default_new(Tail(functions))

declare_default_from_new_lines(env, name, functions) ==
    LET found == find_default_new(functions) IN
    IF IsSome(found)
    THEN LET func == found.val IN
         << <<>> >>
         \o cfg_deprecated_lines(env, func.deprecated_version, FALSE, 0)
         \o version_condition_lines(env, func.version, FALSE, 0)
         \o << <<"impl Default for ", name, " {">>,
               <<"    fn default() -> Self {">>,
               <<"        Self::new()">>,
               <<"    }">>,
               <<"}">> >>
    ELSE <<>>

(***************************************************************************)
(* Calls.  Each action is one call of a public function on inputs drawn    *)
(* from the bounded sets, on a fresh sink.                                 *)
(***************************************************************************)
Init ==
    /\ pc = "ready"
    /\ op = "none"
    /\ args = [none |-> TRUE]
    /\ w = NewSink([failAt |-> 0, err |-> "none"])
    /\ ret = "none"

Emit(name, a, sink, lines) ==
    /\ pc' = "done"
    /\ op' = name
    /\ args' = a
    /\ w' = try_all(NewSink(sink), lines)
    /\ ret' = w'.res

Pure(name, a, result) ==
    /\ pc' = "done"
    /\ op' = name
    /\ args' = a
    /\ ret' = result
    /\ UNCHANGED w

CallVersionConditionString ==
    /\ pc = "ready"
    /\ \E env \in Envs, version \in OptVersions, commented \in BOOLEAN,
       indent \in 0..MaxIndent :
        Pure("version_condition_string",
             [env |-> env, version |-> version, commented |-> commented,
              indent |-> indent],
             version_condition_string(env, version, commented, indent))

CallVersionCondition ==
    /\ pc = "ready"
    /\ \E sink \in Sinks, env \in Envs, version \in OptVersions,
       commented \in BOOLEAN, indent \in 0..MaxIndent :
        Emit("version_condition",
             [env |-> env, version |-> version, commented |-> commented,
              indent |-> indent],
             sink, version_condition_lines(env, version, commented, indent))

CallNotVersionCondition ==
    /\ pc = "ready"
    /\ \E sink \in Sinks, env \in Envs, version \in OptVersions,
       commented \in BOOLEAN, indent \in 0..MaxIndent :
        Emit("not_version_condition",
             [env |-> env, version |-> version, commented |-> commented,
              indent |-> indent],
             sink, not_version_condition_lines(version, commented, indent))

CallEscapeString ==
    /\ pc = "ready"
    /\ \E s \in Strings :
        Pure("escape_string", [s |-> s], escape_string(s))

\* Derive inputs.
DeriveSpecs ==
    {[names |-> <<"Debug", "Clone">>, cfg_condition |-> None],
     [names |-> <<"Hash">>, cfg_condition |-> None],
     [names |-> <<"Serialize", "Deserialize">>,
      cfg_condition |-> Some("feature = \"serde\"")]}
DeriveLists == SeqsUpTo(DeriveSpecs, MaxDerives)

CallDerives ==
    /\ pc = "ready"
    /\ \E sink \in Sinks, derive \in DeriveLists, indent \in 0..MaxIndent :
        Emit("derives", [derives |-> derive, indent |-> indent], sink,
             derives_lines(derive, indent))

\* Ancestor inputs: the types of the library an ancestor can name, by
\* namespace and by kind, each with either status.
TypeIds == [ns_id : {MAIN, 1}, id : {1, 2}]
type_name_of(type_id) ==
    IF type_id.ns_id = MAIN
    THEN (IF type_id.id = 1 THEN "Object" ELSE "Buildable")
    ELSE (IF type_id.id = 1 THEN "Application" ELSE "ActionMap")
Statuses == {"Generate", "Ignore"}
Ancestors ==
    {[type_id |-> t, name |-> type_name_of(t), status |-> s] :
        t \in TypeIds, s \in Statuses}
AncestorLists == SeqsUpTo(Ancestors, MaxParents)
ObjectTypes ==
    {[type_name |-> "Widget", glib_name |-> "GtkWidget",
      glib_class_name |-> Some("GtkWidgetClass"),
      rust_class_name |-> Some("WidgetClass"),
      glib_func_name |-> "gtk_widget_get_type"],
     [type_name |-> "Orientable", glib_name |-> "GtkOrientable",
      glib_class_name |-> None, rust_class_name |-> None,
      glib_func_name |-> "gtk_orientable_get_type"]}

CallDefineObjectType ==
    /\ pc = "ready"
    /\ \E sink \in Sinks, t \in ObjectTypes, is_interface \in BOOLEAN,
          parents \in AncestorLists :
        Emit("define_object_type",
             [type |-> t, is_interface |-> is_interface, parents |-> parents],
             sink,
             define_object_type_lines(t.type_name, t.glib_name,
                                      t.glib_class_name, t.rust_class_name,
                                      t.glib_func_name, is_interface, parents))

GetTypeFns == {None, Some("gdk_rectangle_get_type")}

CallDefineBoxedType ==
    /\ pc = "ready"
    /\ \E sink \in Sinks, get_type_fn \in GetTypeFns, derive \in DeriveLists :
        Emit("define_boxed_type",
             [get_type_fn |-> get_type_fn, derive |-> derive], sink,
             define_boxed_type_lines("Rectangle", "GdkRectangle",
                                     "gdk_rectangle_copy", "gdk_rectangle_free",
                                     get_type_fn, derive))

CallDefineAutoBoxedType ==
    /\ pc = "ready"
    /\ \E sink \in Sinks,
          get_type_fn \in {"gdk_rectangle_get_type", "gdk_rgba_get_type"},
          derive \in DeriveLists :
        Emit("define_auto_boxed_type",
             [get_type_fn |-> get_type_fn, derive |-> derive], sink,
             define_auto_boxed_type_lines("Rectangle", "GdkRectangle",
                                          get_type_fn, derive))

CallDefineSharedType ==
    /\ pc = "ready"
    /\ \E sink \in Sinks, get_type_fn \in GetTypeFns, derive \in DeriveLists :
        Emit("define_shared_type",
             [get_type_fn |-> get_type_fn, derive |-> derive], sink,
             define_shared_type_lines("Bytes", "GBytes", "g_bytes_ref",
                                      "g_bytes_unref", get_type_fn, derive))

\* Import inputs.
ImportNames == {"glib", "std::ptr"}
FeatureLists == {<<>>, <<"futures">>, <<"futures", "v2_48">>}
ImportEntries ==
    [name : ImportNames, version : OptVersions, constraints : FeatureLists]
ImportLists == SeqsUpTo(ImportEntries, MaxImports)

CallUses ==
    /\ pc = "ready"
    /\ \E sink \in Sinks, env \in Envs, imports \in ImportLists :
        Emit("uses", [env |-> env, imports |-> imports], sink,
             uses_lines(env, imports))

\* Function inputs: the qualifying constructor and its three near misses,
\* with differing deprecation and version annotations.
FunctionShapes ==
    {[hidden |-> FALSE, name |-> "new", rust_parameters |-> 0],
     [hidden |-> TRUE, name |-> "new", rust_parameters |-> 0],
     [hidden |-> FALSE, name |-> "new", rust_parameters |-> 1],
     [hidden |-> FALSE, name |-> "new_with_label", rust_parameters |-> 0]}
FunctionAnnotations ==
    {[deprecated_version |-> None, version |-> None],
     [deprecated_version |-> Some(1), version |-> Some(2)],
     [deprecated_version |-> Some(2), version |-> Some(1)]}
FunctionInfos ==
    {[hidden |-> s.hidden, name |-> s.name,
      rust_parameters |-> s.rust_parameters,
      deprecated_version |-> a.deprecated_version, version |-> a.version] :
        s \in FunctionShapes, a \in FunctionAnnotations}
FunctionLists == SeqsUpTo(FunctionInfos, MaxFunctions)

CallDeclareDefaultFromNew ==
    /\ pc = "ready"
    /\ \E sink \in Sinks, env \in Envs, functions \in FunctionLists :
        Emit("declare_default_from_new",
             [env |-> env, name |-> "Button", functions |-> functions], sink,
             declare_default_from_new_lines(env, "Button", functions))

Next ==
    \/ CallVersionConditionString
    \/ CallVersionCondition
    \/ CallNotVersionCondition
    \/ CallEscapeString
    \/ CallDerives
    \/ CallDefineObjectType
    \/ CallDefineBoxedType
    \/ CallDefineAutoBoxedType
    \/ CallDefineSharedType
    \/ CallUses
    \/ CallDeclareDefaultFromNew

Spec == Init /\ [][Next]_vars

(***************************************************************************)
(* Properties.  Helpers that read the emitted text back.                   *)
(***************************************************************************)
Min(S) == CHOOSE x \in S : \A y \in S : x <= y
Contains(line, fragment) == \E i \in DOMAIN line : line[i] = fragment
NoFailure == w.failAt = 0

\* names[1], ", ", names[2], ... written out position by position.
Joined(names) ==
    [i \in 1..(2 * Len(names) - 1) |->
        IF i % 2 = 1 THEN names[(i + 1) \div 2] ELSE ", "]

\* The lines the call would hand to a sink that never fails.
FailureFreeLines ==
    CASE op = "define_object_type" ->
            define_object_type_lines(args.type.type_name, args.type.glib_name,
                args.type.glib_class_name, args.type.rust_class_name,
                args.type.glib_func_name, args.is_interface, args.parents)
      [] op = "define_boxed_type" ->
            define_boxed_type_lines("Rectangle", "GdkRectangle",
                "gdk_rectangle_copy", "gdk_rectangle_free", args.get_type_fn,
                args.derive)
      [] op = "define_auto_boxed_type" ->
            define_auto_boxed_type_lines("Rectangle", "GdkRectangle",
                args.get_type_fn, args.derive)
      [] op = "define_shared_type" ->
            define_shared_type_lines("Bytes", "GBytes", "g_bytes_ref",
                "g_bytes_unref", args.get_type_fn, args.derive)
      [] op = "uses" -> uses_lines(args.env, args.imports)
      [] op = "derives" -> derives_lines(args.derives, args.indent)
      [] op = "declare_default_from_new" ->
            declare_default_from_new_lines(args.env, args.name, args.functions)
      [] OTHER -> <<>>

Emitters ==
    {"define_object_type", "define_boxed_type", "define_auto_boxed_type",
     "define_shared_type", "uses", "derives", "declare_default_from_new"}

(***************************************************************************)
(* C2.  version_condition_string returns None when the version is absent   *)
(* or not above env.config.min_cfg_version (equal included) and Some text  *)
(* holding feature = "dox" when it is strictly above; version_condition    *)
(* makes one write, of that text, in the Some case and none in the None    *)
(* case.                                                                   *)
(***************************************************************************)
C2_VersionGuard ==
    /\ op = "version_condition_string" =>
        LET v == args.version
            min == args.env.min_cfg_version
        IN /\ (~IsSome(v) \/ v.val <= min) => ret = None
           /\ (IsSome(v) /\ v.val > min) =>
                /\ IsSome(ret)
                /\ Contains(ret.val, DOX)
                /\ Contains(ret.val, to_cfg(v.val))
    /\ op = "version_condition" =>
        LET v == args.version
            min == args.env.min_cfg_version
            guarded == IsSome(v) /\ v.val > min
        IN /\ w.attempts = IF guarded THEN 1 ELSE 0
           /\ Len(w.accepted) = IF guarded /\ w.failAt # 1 THEN 1 ELSE 0
           /\ \A i \in DOMAIN w.accepted : Contains(w.accepted[i], DOX)

C2_Witness ==
    /\ op = "version_condition_string"
    /\ args.version = Some(2)
    /\ args.env.min_cfg_version = 1
    /\ IsSome(ret)

(***************************************************************************)
(* C9 as claimed.  not_version_condition writes a guard line exactly when  *)
(* version_condition would: the version present and strictly above the     *)
(* configured minimum.                                                     *)
(***************************************************************************)
C9_Original ==
    op = "not_version_condition" =>
        (w.attempts = 1
            <=> (IsSome(args.version)
                 /\ args.version.val > args.env.min_cfg_version))

(***************************************************************************)
(* C9 as amended.  not_version_condition takes no environment and writes   *)
(* its guard line exactly when the version is present, whatever the        *)
(* configured minimum: it agrees with version_condition on an absent       *)
(* version and on a version above the minimum, and writes a line where     *)
(* version_condition writes none for a version at or below it.  The line   *)
(* holds not(<version condition>) and feature = "dox".                     *)
(***************************************************************************)
C9_NotVersionGuard ==
    op = "not_version_condition" =>
        LET v == args.version
            min == args.env.min_cfg_version
            positive == version_condition_lines(args.env, v, args.commented,
                                                args.indent)
        IN /\ w.attempts = IF IsSome(v) THEN 1 ELSE 0
           /\ ~IsSome(v) => positive = <<>>
           /\ (IsSome(v) /\ v.val > min) => Len(positive) = 1
           /\ (IsSome(v) /\ v.val <= min) => positive = <<>>
           /\ \A i \in DOMAIN w.accepted :
                LET line == w.accepted[i] IN
                /\ Contains(line, DOX)
                /\ \E j \in 1..(Len(line) - 2) :
                     /\ line[j] = "not("
                     /\ line[j + 1] = to_cfg(v.val)
                     /\ line[j + 2] = ")"

C9_Witness ==
    /\ op = "not_version_condition"
    /\ IsSome(args.version)
    /\ args.version.val <= args.env.min_cfg_version
    /\ Len(w.accepted) = 1

(***************************************************************************)
(* C6.  In escape_string(s) every '"' and every '\' of the input is        *)
(* prefixed by one '\': read left to right the output is a run of          *)
(* two-character escapes '\"' and '\\' and of other characters, none of    *)
(* them a bare '"'; undoing the escapes gives s back; the output is at     *)
(* most twice as long as s; and escape_string("") = "".                    *)
(***************************************************************************)
RECURSIVE WellEscaped(_)
WellEscaped(es) ==
    IF es = <<>> THEN TRUE
    ELSE IF Head(es) = BACKSLASH
    THEN /\ Len(es) >= 2
         /\ es[2] \in {QUOTE, BACKSLASH}
         /\ WellEscaped(SubSeq(es, 3, Len(es)))
    ELSE Head(es) # QUOTE /\ WellEscaped(Tail(es))

RECURSIVE Unescaped(_)
Unescaped(es) ==
    IF es = <<>> THEN <<>>
    ELSE IF Head(es) = BACKSLASH /\ Len(es) >= 2
    THEN <<es[2]>> \o Unescaped(SubSeq(es, 3, Len(es)))
    ELSE <<Head(es)>> \o Unescaped(Tail(es))

Specials(s) == {i \in DOMAIN s : s[i] \in {QUOTE, BACKSLASH}}

C6_Escape ==
    op = "escape_string" =>
        /\ WellEscaped(ret)
        /\ Unescaped(ret) = args.s
        /\ Len(ret) = Len(args.s) + Cardinality(Specials(args.s))
        /\ Len(ret) <= 2 * Len(args.s)
        /\ args.s = <<>> => ret = <<>>
        /\ args.s = <<"'", QUOTE, BACKSLASH>> =>
             ret = <<"'", BACKSLASH, QUOTE, BACKSLASH, BACKSLASH>>

C6_Witness ==
    /\ op = "escape_string"
    /\ args.s = <<"'", QUOTE, BACKSLASH>>
    /\ Len(ret) = 5

(***************************************************************************)
(* C10 as claimed.  escape_string(escape_string(s)) = escape_string(s)     *)
(* holds for the empty string and for no other string.                     *)
(***************************************************************************)
C10_Original ==
    op = "escape_string" => (escape_string(ret) = ret <=> args.s = <<>>)

(***************************************************************************)
(* C10 as amended.  escape_string(escape_string(s)) = escape_string(s)     *)
(* holds exactly when s holds no '"' and no '\' (the empty string          *)
(* included); for every other s the second application is strictly longer. *)
(***************************************************************************)
C10_Idempotence ==
    op = "escape_string" =>
        /\ escape_string(ret) = ret <=> Specials(args.s) = {}
        /\ Specials(args.s) # {} => Len(escape_string(ret)) > Len(ret)
        /\ Specials(args.s) = {} => ret = args.s

C10_Witness ==
    /\ op = "escape_string"
    /\ args.s # <<>>
    /\ Specials(args.s) = {}
    /\ escape_string(ret) = ret

(***************************************************************************)
(* C4.  A failed write ends the emitter: when the k-th write fails the     *)
(* emitter returns that error, has made exactly k writes (none after the   *)
(* failing one, none twice) and the sink holds exactly the first k-1 lines *)
(* of the failure-free output; when no write fails it returns Ok with the  *)
(* whole output written.                                                   *)
(***************************************************************************)
C4_AbortOnFirstError ==
    op \in Emitters =>
        LET full == FailureFreeLines
            k == w.failAt
        IN IF k \in 1..Len(full)
           THEN /\ ret = w.err
                /\ ret \in IoErrors
                /\ w.attempts = k
                /\ w.accepted = SubSeq(full, 1, k - 1)
           ELSE /\ ret = "Ok"
                /\ w.attempts = Len(full)
                /\ w.accepted = full

C4_Witness ==
    /\ op = "define_boxed_type"
    /\ w.failAt = 4
    /\ args.derive # <<>>
    /\ ret = "ENOSPC"
    /\ Len(w.accepted) = 3

(***************************************************************************)
(* Reading the struct line of define_object_type: its third line, whose    *)
(* first eleven fragments end with ">)" and whose last is ";".             *)
(***************************************************************************)
StructLine == w.accepted[3]
ParentClause == SubSeq(StructLine, 12, Len(StructLine) - 1)
ClauseKeywords == {" @requires ", " @extends ", " @implements "}

\* The names listed from position i on, up to the next clause.
RECURSIVE ListFrom(_, _)
ListFrom(clause, i) ==
    IF i > Len(clause) \/ clause[i] = "," \/ clause[i] \in ClauseKeywords
    THEN <<>>
    ELSE IF clause[i] = ", " THEN ListFrom(clause, i + 1)
    ELSE <<clause[i]>> \o ListFrom(clause, i + 1)

\* The names the clause lists after the keyword; none when it is absent.
ListOf(clause, keyword) ==
    IF \E i \in DOMAIN clause : clause[i] = keyword
    THEN ListFrom(clause, (CHOOSE i \in DOMAIN clause : clause[i] = keyword) + 1)
    ELSE <<>>

Occurrences(list, name) == Cardinality({i \in DOMAIN list : list[i] = name})

\* The ancestors of the call that are not ignored, and their names by kind.
Survivors == {i \in DOMAIN args.parents : args.parents[i].status # "Ignore"}
OfKind(kind) == {i \in Survivors : library_type(args.parents[i].type_id) = kind}
QualifiedName(p) ==
    IF p.type_id.ns_id = MAIN THEN p.name ELSE "gio::" \o p.name
RECURSIVE NamesAt(_)
NamesAt(S) ==
    IF S = {} THEN <<>>
    ELSE <<QualifiedName(args.parents[Min(S)])>> \o NamesAt(S \ {Min(S)})

(***************************************************************************)
(* C1.  define_object_type names no ignored ancestor; for an interface     *)
(* owner the @requires list is the non-ignored ancestors in input order    *)
(* and there is no other list; for a concrete owner the @extends list is   *)
(* the non-ignored class ancestors and the @implements list the            *)
(* non-ignored interface ancestors, each in input order, there is no       *)
(* @requires list, and every non-ignored ancestor is an entry of exactly   *)
(* one of the two.                                                         *)
(***************************************************************************)
C1_AncestorPartition ==
    (op = "define_object_type" /\ Len(w.accepted) >= 3) =>
        LET requires == ListOf(ParentClause, " @requires ")
            extends == ListOf(ParentClause, " @extends ")
            implements == ListOf(ParentClause, " @implements ")
            listed == requires \o extends \o implements
        IN /\ Len(listed) = Cardinality(Survivors)
           /\ \A j \in DOMAIN listed :
                \E i \in Survivors :
                    listed[j] = QualifiedName(args.parents[i])
           /\ args.is_interface =>
                /\ requires = NamesAt(Survivors)
                /\ extends = <<>>
                /\ implements = <<>>
           /\ ~args.is_interface =>
                /\ requires = <<>>
                /\ extends = NamesAt(OfKind("Class"))
                /\ implements = NamesAt(OfKind("Interface"))
                /\ \A i \in Survivors :
                     LET p == args.parents[i]
                         n == QualifiedName(p)
                     IN IF library_type(p.type_id) = "Class"
                        THEN Occurrences(extends, n) >= 1
                        ELSE Occurrences(implements, n) >= 1

C1_Witness ==
    /\ op = "define_object_type"
    /\ NoFailure
    /\ ~args.is_interface
    /\ Len(args.parents) = 2
    /\ Cardinality(Survivors) = 2
    /\ library_type(args.parents[1].type_id) = "Interface"
    /\ library_type(args.parents[2].type_id) = "Class"
    /\ args.parents[2].type_id.ns_id # MAIN
    /\ Len(ListOf(ParentClause, " @extends ")) = 1
    /\ Len(ListOf(ParentClause, " @implements ")) = 1

(***************************************************************************)
(* C3.  The parent clause of the struct line is empty when no ancestor     *)
(* survives; ' @requires ' and the survivors joined by ', ' for an         *)
(* interface owner; for a concrete owner ' @extends <classes>',            *)
(* ' @implements <interfaces>', or both with extends first and one comma   *)
(* between them.  Widget with Object and Buildable gives                   *)
(* ' @extends Object, @implements Buildable'.                              *)
(***************************************************************************)
C3_ParentClauseShape ==
    (op = "define_object_type" /\ Len(w.accepted) >= 3) =>
        LET classes == NamesAt(OfKind("Class"))
            interfaces == NamesAt(OfKind("Interface"))
        IN /\ Len(StructLine) >= 12
           /\ StructLine[11] = ">)"
           /\ StructLine[Len(StructLine)] = ";"
           /\ ParentClause =
                IF Survivors = {} THEN <<>>
                ELSE IF args.is_interface
                THEN <<" @requires ">> \o Joined(NamesAt(Survivors))
                ELSE IF interfaces = <<>>
                THEN <<" @extends ">> \o Joined(classes)
                ELSE IF classes = <<>>
                THEN <<" @implements ">> \o Joined(interfaces)
                ELSE <<" @extends ">> \o Joined(classes)
                     \o <<",", " @implements ">> \o Joined(interfaces)
           /\ (/\ ~args.is_interface
               /\ Len(args.parents) = 2
               /\ \A i \in 1..2 : /\ args.parents[i].status = "Generate"
                                  /\ args.parents[i].type_id.ns_id = MAIN
               /\ args.parents[1].name = "Object"
               /\ args.parents[2].name = "Buildable") =>
                ParentClause =
                    <<" @extends ", "Object", ",", " @implements ", "Buildable">>

C3_Witness ==
    /\ op = "define_object_type"
    /\ NoFailure
    /\ args.type.type_name = "Widget"
    /\ ~args.is_interface
    /\ ParentClause = <<" @extends ", "Object", ",", " @implements ", "Buildable">>

(***************************************************************************)
(* C5.  declare_default_from_new writes nothing (no blank line either)     *)
(* when no function is non-hidden, named "new" and without rust            *)
(* parameters; otherwise it writes one blank line, the deprecation line    *)
(* and then the version line of the first such function in list order,     *)
(* where each applies, and one impl Default block.                         *)
(***************************************************************************)
Qualifying ==
    {i \in DOMAIN args.functions :
        /\ args.functions[i].hidden = FALSE
        /\ args.functions[i].name = "new"
        /\ args.functions[i].rust_parameters = 0}

ImplBlock(name) ==
    << <<"impl Default for ", name, " {">>,
       <<"    fn default() -> Self {">>,
       <<"        Self::new()">>,
       <<"    }">>,
       <<"}">> >>

C5_DefaultFromNew ==
    (op = "declare_default_from_new" /\ NoFailure) =>
        LET out == w.accepted
            impls == {i \in DOMAIN out :
                        out[i] # <<>> /\ out[i][1] = "impl Default for "}
        IN IF Qualifying = {}
           THEN out = <<>> /\ w.attempts = 0
           ELSE LET first == args.functions[Min(Qualifying)]
                    min == args.env.min_cfg_version
                    dep == first.deprecated_version
                    ver == first.version
                    depLine == cfg_deprecated_lines(args.env, dep, FALSE, 0)
                    verLine ==
                        IF IsSome(ver) /\ ver.val > min
                        THEN << <<"#[cfg(any(", to_cfg(ver.val), ", ", DOX,
                                  "))]">> >>
                        ELSE <<>>
                IN /\ Cardinality(impls) = 1
                   /\ out = << <<>> >> \o depLine \o verLine
                            \o ImplBlock(args.name)

C5_Witness ==
    /\ op = "declare_default_from_new"
    /\ NoFailure
    /\ Cardinality(Qualifying) = 2
    /\ args.functions[1].version # args.functions[2].version
    /\ args.env.min_cfg_version = 1
    /\ args.functions[1].version = Some(2)
    /\ IsSome(args.functions[1].deprecated_version)
    /\ Len(w.accepted) = 8

(***************************************************************************)
(* C7.  uses writes one blank line and then, entry by entry in the order   *)
(* imports.iter() yields them: no feature guard for no constraint, one     *)
(* #[cfg(feature = ..)] line for one, one #[cfg(any(..))] line listing     *)
(* them in order for more; then the version guard only when the entry's    *)
(* version is strictly above the configured minimum; then the use line.    *)
(* There are as many use lines as entries.                                 *)
(***************************************************************************)
IsFeatureGuard(line, constraints) ==
    IF Len(constraints) = 1
    THEN line = <<"#[cfg(", "feature = \"" \o constraints[1] \o "\"", ")]">>
    ELSE /\ Len(line) = 2 * Len(constraints) + 1
         /\ line[1] = "#[cfg(any("
         /\ line[Len(line)] = "))]"
         /\ \A i \in DOMAIN constraints :
              line[2 * i] = "feature = \"" \o constraints[i] \o "\""
         /\ \A i \in 1..(Len(constraints) - 1) : line[2 * i + 1] = ", "

IsVersionGuard(line, v) ==
    line = <<"#[cfg(any(", to_cfg(v), ", ", DOX, "))]">>

RECURSIVE EntriesInOrder(_, _, _)
EntriesInOrder(lines, imports, min) ==
    IF imports = <<>> THEN lines = <<>>
    ELSE LET e == Head(imports)
             nf == IF e.constraints = <<>> THEN 0 ELSE 1
             nv == IF IsSome(e.version) /\ e.version.val > min THEN 1 ELSE 0
         IN /\ Len(lines) >= nf + nv + 1
            /\ nf = 1 => IsFeatureGuard(lines[1], e.constraints)
            /\ nv = 1 => IsVersionGuard(lines[nf + 1], e.version.val)
            /\ lines[nf + nv + 1] = <<"use ", e.name, ";">>
            /\ EntriesInOrder(SubSeq(lines, nf + nv + 2, Len(lines)),
                              Tail(imports), min)

C7_UsesOrder ==
    (op = "uses" /\ NoFailure) =>
        LET out == w.accepted
            useLines == {i \in DOMAIN out : out[i] # <<>> /\ out[i][1] = "use "}
        IN /\ Len(out) >= 1
           /\ out[1] = <<>>
           /\ Cardinality(useLines) = Len(args.imports)
           /\ (out # <<>> /\ args.imports # <<>>) => Len(out) \in useLines
           /\ EntriesInOrder(Tail(out), args.imports,
                             args.env.min_cfg_version)

C7_Witness ==
    /\ op = "uses"
    /\ NoFailure
    /\ Len(args.imports) = 2
    /\ args.imports[1].name = "std::ptr"
    /\ args.imports[2].name = "glib"
    /\ Len(args.imports[1].constraints) = 2
    /\ Len(args.imports[2].constraints) = 1
    /\ args.imports[1].version = Some(2)
    /\ args.imports[2].version = Some(1)
    /\ args.env.min_cfg_version = 1
    /\ Len(w.accepted) = 6

(***************************************************************************)
(* C8.  The match fn block of define_boxed_type binds copy and free, in    *)
(* that order, and get_type third exactly when a get-type function is      *)
(* given; define_shared_type does the same with ref and unref;             *)
(* define_auto_boxed_type always binds copy, free and get_type, each       *)
(* calling the one get-type function.                                      *)
(***************************************************************************)
MatchOpen == CHOOSE i \in DOMAIN w.accepted : w.accepted[i] = <<"\tmatch fn {">>
MatchClose == CHOOSE i \in DOMAIN w.accepted : w.accepted[i] = <<"\t}">>
Bindings == SubSeq(w.accepted, MatchOpen + 1, MatchClose - 1)
BindingKeys == [i \in DOMAIN Bindings |-> Bindings[i][2]]

C8_AccessorBindings ==
    (op \in {"define_boxed_type", "define_shared_type",
             "define_auto_boxed_type"} /\ NoFailure) =>
        /\ Cardinality({i \in DOMAIN w.accepted :
                          w.accepted[i] = <<"\tmatch fn {">>}) = 1
        /\ Cardinality({i \in DOMAIN w.accepted : w.accepted[i] = <<"\t}">>}) = 1
        /\ MatchClose = Len(w.accepted) - 1
        /\ op = "define_boxed_type" =>
             /\ BindingKeys = IF IsSome(args.get_type_fn)
                              THEN <<"copy", "free", "get_type">>
                              ELSE <<"copy", "free">>
             /\ IsSome(args.get_type_fn) =>
                  Bindings[3][6] = args.get_type_fn.val
        /\ op = "define_shared_type" =>
             /\ BindingKeys = IF IsSome(args.get_type_fn)
                              THEN <<"ref", "unref", "get_type">>
                              ELSE <<"ref", "unref">>
             /\ IsSome(args.get_type_fn) =>
                  Bindings[3][6] = args.get_type_fn.val
        /\ op = "define_auto_boxed_type" =>
             /\ BindingKeys = <<"copy", "free", "get_type">>
             /\ \A i \in 1..3 : Bindings[i][6] = args.get_type_fn

C8_Witness ==
    /\ op = "define_boxed_type"
    /\ NoFailure
    /\ args.get_type_fn = None
    /\ Len(args.derive) = 2
    /\ Len(Bindings) = 2

====
